---- MODULE Spec2Model ----
(***************************************************************************)
(* Model of the satellite manager (SatelliteUtil/Manager.py) together with *)
(* the container runtime adapter it drives (ContainerUtil/Manager.py).     *)
(*                                                                         *)
(* The class Container (_Container.py), validateAddress (Comm/CommUtil.py) *)
(* and DBInterface (DBUtil/DBInterface.py) are used by the manager but are *)
(* not part of the available sources; they are modelled from the           *)
(* specification (sections 3, 4.1, 4.3 and 4.6).                           *)
(***************************************************************************)
EXTENDS Integers, Sequences, FiniteSets, TLC

(***************************************************************************)
(* Bounds of the model                                                     *)
(***************************************************************************)
\* number of createContainer calls in one behaviour
MaxCreates == 2
\* number of outbound connections to peer satellites in one behaviour
MaxConnects == 2
\* number of stops of one address that are in progress at the same time, when
\* the ContainerManager is driven by an arbitrary sender
MaxStops == 2
\* the tasks the EnvironmentManager may hold at a time
MaxTasks == 2
\* the jobs of ManagerBase requested by the threads of the node and not yet run
MaxJobs == 2

(***************************************************************************)
(* Values                                                                  *)
(***************************************************************************)
RobotIDs == {"robot-A", "robot-B"}
\* owner of a record whose owner could not be determined
NoRobot == "no-robot"
NodeIDs == {"n1"}
\* the other satellites of the fleet
Peers == {"sat-1", "sat-2"}
\* what a peer holds before a ROUTE_INFO has been sent to it
NoView == {<<"no ROUTE_INFO">>}

\* Address format (section 4.1): fixed total length, fixed alphabet
ADDRESS_LENGTH == 2
PREFIX_LENGTH_ADDR == 1
AddrAlphabet == {"S", "0", "1", "2"}

a1 == <<"S", "1">>
a2 == <<"S", "2">>
\* addresses the master may put into an ID_RESPONSE: two valid ones and one
\* that is too short and uses a character outside the alphabet
ResponseIDs == {a1, a2, <<"s">>}
\* container ids a robot may name in a request
ContainerIDs == {a1, a2}

\* Paths are sequences of components; an absolute path starts with "/"
HomeDirOf == [r \in RobotIDs |->
                IF r = "robot-A" THEN <<"/", "home", "A">> ELSE <<"/", "home", "B">>]
MissingDir == <<"/", "missing">>
\* a home folder given as a relative path
RelativeDir == <<"home", "A">>
\* directories that exist on the host
HostDirs == {HomeDirOf[r] : r \in RobotIDs}

VARIABLES
    containers,        \* SatelliteManager._containers: commID -> Container
    pendingCommIDReq,  \* SatelliteManager._pendingCommIDReq: list of Deferreds (request ids)
    creates,           \* the createContainer calls: robotID and the two Deferreds of the DeferredList
    toMaster,          \* messages sent to the master (ID_REQUEST), as a count
    toAdapter,         \* START_CONTAINER / STOP_CONTAINER messages in flight to the ContainerManager
    commIDs,           \* ContainerManager._commIDs
    confDirs,          \* directories below settings.CONF_DIR: name -> set of files
    threadJobs,        \* _stopContainer calls handed to deferToThread, per commID
    lxcStops,          \* running lxc-stop processes, per commID
    connecting,        \* outbound connections to a peer whose handshake is not done, per peer
    links,             \* established outbound connections, per peer
    peerView,          \* the content of the last ROUTE_INFO sent to a peer
    last,              \* the handler the reactor has just run, its arguments and its
                       \* outcome; Idle once the reactor is back in its loop
    tasks,             \* Environment node: the tasks the EnvironmentManager holds
    service,           \* Environment node: the service callback that has just run, its
                       \* request, its outcome and the calls it made to the manager
    runningProcesses,  \* ManagerBase._runningProcesses: the keys of the map
    processes,         \* the process launched for a key: none, running or stopped
    processLock,       \* ManagerBase._processLock: free, or the thread that holds it
    jobQueue,          \* the addProcess / removeProcess jobs requested and not yet run
    stopThread         \* the thread that runs ManagerBase.stop: where it is, the keys
                       \* its loop has still to visit

vars == <<containers, pendingCommIDReq, creates, toMaster, toAdapter, commIDs,
          confDirs, threadJobs, lxcStops, connecting, links, peerView, last,
          tasks, service, runningProcesses, processes, processLock, jobQueue,
          stopThread>>

satVars == <<containers, pendingCommIDReq, creates, toMaster, toAdapter>>
adapterVars == <<commIDs, confDirs, threadJobs, lxcStops>>
peerVars == <<connecting, links, peerView>>
envVars == <<tasks, service>>
baseVars == <<runningProcesses, processes, processLock, jobQueue, stopThread>>
\* the node inside a container: it shares no state with the satellite
adminVars == <<envVars, baseVars>>

(***************************************************************************)
(* Helpers                                                                 *)
(***************************************************************************)
NoResult == [fired |-> FALSE, ok |-> FALSE, value |-> <<>>]
Success(v) == [fired |-> TRUE, ok |-> TRUE, value |-> v]
Failure == [fired |-> TRUE, ok |-> FALSE, value |-> <<>>]

\* what is recorded of a handler call: its name and arguments, what it returned
\* or raised, the message it sent, and for the calls that complete a
\* createContainer the request, the results handed to processRobotSpecs and the
\* branch processRobotSpecs took; addresses is the list of addresses a routing
\* call returned, or the records a shutdown found in the map; upstart is the
\* command of the upstart file a start of a container has written
NoScript == [user |-> "none", exec |-> "none", args |-> <<>>]

Call(op, robotID, commID, arg, result, sent) ==
    [op |-> op, robotID |-> robotID, commID |-> commID, arg |-> arg,
     result |-> result, sent |-> sent, proc |-> "none", req |-> 0, results |-> <<>>,
     addresses |-> {}, upstart |-> NoScript]

\* the reactor is in its loop, no handler has just run
Idle == Call("idle", NoRobot, <<>>, "none", "ok", "none")

CreateStep(op, robotID, commID, req, proc, results) ==
    [op |-> op, robotID |-> robotID, commID |-> commID, arg |-> "none",
     result |-> "ok", sent |-> IF proc = "started" THEN "START_CONTAINER" ELSE "none",
     proc |-> proc, req |-> req, results |-> results, addresses |-> {},
     upstart |-> NoScript]

\* a createContainer call whose DeferredList has fired: nothing refers to it
Done == [robotID |-> NoRobot, robot |-> Failure, comm |-> Failure]

DropKey(f, k) == [x \in DOMAIN f \ {k} |-> f[x]]

\* Comm.CommUtil.validateAddress (section 4.1)
validateAddress(addr) ==
    /\ Len(addr) = ADDRESS_LENGTH
    /\ PREFIX_LENGTH_ADDR > 0
    /\ PREFIX_LENGTH_ADDR < ADDRESS_LENGTH
    /\ \A i \in 1..Len(addr) : addr[i] \in AddrAlphabet

\* os.path.isdir
isdir(path) == path \in HostDirs

\* os.path.isabs
isabs(path) == Len(path) > 0 /\ path[1] = "/"

(***************************************************************************)
(* Container (_Container.py), from sections 3 and 4.3 of the specification *)
(***************************************************************************)
\* Container(commID, homeFolder) followed by container.start(commMngr): the
\* record has asked the adapter to start and waits for the inner node
Container(commID, homeFolder, owner) ==
    [address |-> commID, ownerRobot |-> owner, homeDir |-> homeFolder,
     connected |-> FALSE, state |-> "WaitingHandshake", nodes |-> {}]

\* Container.checkOwner
checkOwner(container, robotID) == robotID = container.ownerRobot

StartContainerMsg(commID, homeFolder) ==
    [type |-> "START_CONTAINER", commID |-> commID, homeDir |-> homeFolder]
StopContainerMsg(commID) ==
    [type |-> "STOP_CONTAINER", commID |-> commID, homeDir |-> <<>>]

\* the Environment node before any service call: no task, no callback run
NoService ==
    [op |-> "none", data |-> "", taskID |-> 0, result |-> "ok", calls |-> <<>>,
     tasksBefore |-> {}]

\* ManagerBase after its constructor: an empty map, the lock free, stop not called
Keys == {"k1", "k2"}
NotStopping == [pc |-> "not called", direct |-> FALSE, keysLeft |-> {}]

EnvironmentInit ==
    /\ tasks = {}
    /\ service = NoService

ManagerBaseInit ==
    /\ runningProcesses = {}
    /\ processes = [k \in Keys |-> "none"]
    /\ processLock = "free"
    /\ jobQueue = <<>>
    /\ stopThread = NotStopping

Init ==
    /\ EnvironmentInit
    /\ ManagerBaseInit
    /\ containers = <<>>
    /\ pendingCommIDReq = <<>>
    /\ creates = <<>>
    /\ toMaster = 0
    /\ toAdapter = <<>>
    /\ commIDs = <<>>
    /\ confDirs = [d \in {a2} |-> {}]
    /\ threadJobs = [a \in ContainerIDs |-> 0]
    /\ lxcStops = [a \in ContainerIDs |-> 0]
    /\ connecting = [p \in Peers |-> 0]
    /\ links = [p \in Peers |-> 0]
    /\ peerView = [p \in Peers |-> NoView]
    /\ last = Idle

(***************************************************************************)
(* SatelliteManager.createContainer                                        *)
(***************************************************************************)
\* processRobotSpecs without the test for a container with the same CommID
ProcOutcome_NoDuplicateCheck(robotRes, commRes) ==
    IF ~(robotRes.ok /\ commRes.ok) THEN "noData"
    ELSE IF ~validateAddress(commRes.value) THEN "invalidAddress"
    ELSE IF ~isdir(robotRes.value) THEN "noHomeFolder"
    ELSE "started"

\* processRobotSpecs without the test of the home folder
ProcOutcome_NoHomeCheck(robotRes, commRes) ==
    IF ~(robotRes.ok /\ commRes.ok) THEN "noData"
    ELSE IF ~validateAddress(commRes.value) THEN "invalidAddress"
    ELSE IF commRes.value \in DOMAIN containers THEN "duplicate"
    ELSE "started"

\* the branch processRobotSpecs takes on the results of the DeferredList
ProcOutcome(robotRes, commRes) ==
    IF ~(robotRes.ok /\ commRes.ok) THEN "noData"
    ELSE IF ~validateAddress(commRes.value) THEN "invalidAddress"
    ELSE IF commRes.value \in DOMAIN containers THEN "duplicate"
    ELSE IF ~isdir(robotRes.value) THEN "noHomeFolder"
    ELSE "started"

processRobotSpecs(robotRes, commRes, owner) ==
    IF ProcOutcome(robotRes, commRes) = "started"
    THEN /\ toAdapter' = Append(toAdapter,
                                StartContainerMsg(commRes.value, robotRes.value))
         /\ containers' = [c \in DOMAIN containers \cup {commRes.value} |->
                             IF c = commRes.value
                             THEN Container(commRes.value, robotRes.value, owner)
                             ELSE containers[c]]
    ELSE UNCHANGED <<containers, toAdapter>>

createContainer(robotID) ==
    /\ last = Idle
    /\ Len(creates) < MaxCreates
    /\ creates' = Append(creates, [robotID |-> robotID, robot |-> NoResult,
                                   comm |-> NoResult])
    /\ pendingCommIDReq' = Append(pendingCommIDReq, Len(creates) + 1)
    /\ toMaster' = toMaster + 1
    /\ last' = [Call("createContainer", robotID, <<>>, "none", "ok", "ID_REQUEST")
                   EXCEPT !.req = Len(creates) + 1]
    /\ UNCHANGED <<containers, toAdapter, adapterVars, peerVars, adminVars>>

\* DBInterface.getRobotSpecs: what the database may answer for a robot: its
\* home folder, a folder that does not exist on this host, or a failure
RobotSpecsResults(robotID) ==
    IF robotID \in RobotIDs
    THEN {Success(HomeDirOf[robotID]), Success(MissingDir), Failure}
    ELSE {}

\* the Deferred of DBInterface.getRobotSpecs fires for request r
robotSpecsResponse(r, res) ==
    /\ last = Idle
    /\ r \in 1..Len(creates)
    /\ creates[r] # Done
    /\ ~creates[r].robot.fired
    /\ IF creates[r].comm.fired
       THEN /\ creates' = [creates EXCEPT ![r] = Done]
            /\ \E owner \in RobotIDs :
                   processRobotSpecs(res, creates[r].comm, owner)
            /\ last' = CreateStep("robotSpecsResponse", creates[r].robotID,
                                  creates[r].comm.value, r,
                                  ProcOutcome(res, creates[r].comm),
                                  <<res, creates[r].comm>>)
       ELSE /\ creates' = [creates EXCEPT ![r].robot = res]
            /\ UNCHANGED <<containers, toAdapter>>
            /\ last' = CreateStep("robotSpecsResponse", creates[r].robotID, <<>>,
                                  r, "none", <<>>)
    /\ UNCHANGED <<pendingCommIDReq, toMaster, adapterVars, peerVars, adminVars>>

\* list.pop(): the position setNewCommID takes the Deferred from
popIndex(pending) == Len(pending)

\* setNewCommID firing the last Deferred of the list without taking it out
setNewCommID_NoPop(commID) ==
    /\ last = Idle
    /\ IF pendingCommIDReq = <<>>
       THEN /\ last' = Call("setNewCommID", NoRobot, commID, "none", "IndexError", "none")
            /\ UNCHANGED <<satVars, adapterVars, peerVars, adminVars>>
       ELSE LET r == pendingCommIDReq[popIndex(pendingCommIDReq)]
                res == Success(commID)
            IN /\ creates[r] # Done
               /\ IF creates[r].robot.fired
                  THEN /\ creates' = [creates EXCEPT ![r] = Done]
                       /\ \E owner \in RobotIDs :
                              processRobotSpecs(creates[r].robot, res, owner)
                       /\ last' = CreateStep("setNewCommID", creates[r].robotID, commID,
                                             r, ProcOutcome(creates[r].robot, res),
                                             <<creates[r].robot, res>>)
                  ELSE /\ creates' = [creates EXCEPT ![r].comm = res]
                       /\ UNCHANGED <<containers, toAdapter>>
                       /\ last' = CreateStep("setNewCommID", creates[r].robotID, commID,
                                             r, "none", <<>>)
               /\ UNCHANGED <<pendingCommIDReq, toMaster, adapterVars, peerVars, adminVars>>

\* setNewCommID asking the master again when no request is pending
setNewCommID_RequestOnUnsolicited(commID) ==
    /\ last = Idle
    /\ IF pendingCommIDReq = <<>>
       THEN /\ toMaster' = toMaster + 1
            /\ last' = Call("setNewCommID", NoRobot, commID, "none", "ok", "ID_REQUEST")
            /\ UNCHANGED <<containers, pendingCommIDReq, creates, toAdapter,
                           adapterVars, peerVars, adminVars>>
       ELSE LET i == popIndex(pendingCommIDReq)
                r == pendingCommIDReq[i]
                res == Success(commID)
            IN /\ pendingCommIDReq' = [j \in 1..(Len(pendingCommIDReq) - 1) |->
                                          IF j < i THEN pendingCommIDReq[j]
                                                   ELSE pendingCommIDReq[j + 1]]
               /\ IF creates[r].robot.fired
                  THEN /\ creates' = [creates EXCEPT ![r] = Done]
                       /\ \E owner \in RobotIDs :
                              processRobotSpecs(creates[r].robot, res, owner)
                       /\ last' = CreateStep("setNewCommID", creates[r].robotID, commID,
                                             r, ProcOutcome(creates[r].robot, res),
                                             <<creates[r].robot, res>>)
                  ELSE /\ creates' = [creates EXCEPT ![r].comm = res]
                       /\ UNCHANGED <<containers, toAdapter>>
                       /\ last' = CreateStep("setNewCommID", creates[r].robotID, commID,
                                             r, "none", <<>>)
               /\ UNCHANGED <<toMaster, adapterVars, peerVars, adminVars>>

\* SatelliteManager.setNewCommID, called by GetCommIDProcessor on ID_RESPONSE
setNewCommID(commID) ==
    /\ last = Idle
    /\ IF pendingCommIDReq = <<>>
       THEN /\ last' = Call("setNewCommID", NoRobot, commID, "none", "IndexError", "none")
            /\ UNCHANGED <<satVars, adapterVars, peerVars, adminVars>>
       ELSE LET i == popIndex(pendingCommIDReq)
                r == pendingCommIDReq[i]
                res == Success(commID)
            IN /\ pendingCommIDReq' = [j \in 1..(Len(pendingCommIDReq) - 1) |->
                                          IF j < i THEN pendingCommIDReq[j]
                                                   ELSE pendingCommIDReq[j + 1]]
               /\ IF creates[r].robot.fired
                  THEN /\ creates' = [creates EXCEPT ![r] = Done]
                       /\ \E owner \in RobotIDs :
                              processRobotSpecs(creates[r].robot, res, owner)
                       /\ last' = CreateStep("setNewCommID", creates[r].robotID, commID,
                                             r, ProcOutcome(creates[r].robot, res),
                                             <<creates[r].robot, res>>)
                  ELSE /\ creates' = [creates EXCEPT ![r].comm = res]
                       /\ UNCHANGED <<containers, toAdapter>>
                       /\ last' = CreateStep("setNewCommID", creates[r].robotID, commID,
                                             r, "none", <<>>)
               /\ UNCHANGED <<toMaster, adapterVars, peerVars, adminVars>>

(***************************************************************************)
(* Container (_Container.py), from sections 3, 4.3 and 4.5                 *)
(***************************************************************************)
\* Container.setConnectedFlag: WaitingHandshake -> Ready on true, rejected
\* in every other state; false is the teardown of the connection
setConnectedFlagResult(container, flag) ==
    IF flag /\ container.state # "WaitingHandshake" THEN "InvalidRequest" ELSE "ok"

setConnectedFlag(container, flag) ==
    IF flag
    THEN IF container.state = "WaitingHandshake"
         THEN [container EXCEPT !.connected = TRUE, !.state = "Ready"]
         ELSE container
    ELSE [container EXCEPT !.connected = FALSE, !.state = "Stopping"]

\* Container.send / Container.removeNode: valid only in Ready
readyResult(container) ==
    IF container.state = "Ready" THEN "ok" ELSE "NotReady"

(***************************************************************************)
(* SatelliteManager: operations on one container                           *)
(***************************************************************************)
\* _getContainer without the call of checkOwner
getContainer_NoOwnerCheck(robotID, containerID) ==
    IF containerID \notin DOMAIN containers THEN "InvalidRequest" ELSE "ok"

\* _getContainer: "ok" when it returns the container, else what it raises
getContainer(robotID, containerID) ==
    IF containerID \notin DOMAIN containers THEN "InvalidRequest"
    ELSE IF ~checkOwner(containers[containerID], robotID) THEN "InvalidRequest"
    ELSE "ok"

\* authenticateContainerConnection admitting every connection
authenticateContainerConnection_Always(commID) == TRUE

authenticateContainerConnection(commID) == commID \in DOMAIN containers

authenticateCall(commID) ==
    /\ last = Idle
    /\ last' = Call("authenticateContainerConnection", NoRobot, commID, "none",
                    IF authenticateContainerConnection(commID) THEN "true" ELSE "false",
                    "none")
    /\ UNCHANGED <<satVars, adapterVars, peerVars, adminVars>>

\* setConnectedFlagContainer raising for an unknown CommID whatever the flag
setConnectedFlagContainer_RaiseAlways(commID, flag) ==
    /\ last = Idle
    /\ IF commID \notin DOMAIN containers
       THEN /\ last' = Call("setConnectedFlagContainer", NoRobot, commID,
                            IF flag THEN "true" ELSE "false", "InvalidRequest", "none")
            /\ UNCHANGED containers
       ELSE /\ last' = Call("setConnectedFlagContainer", NoRobot, commID,
                            IF flag THEN "true" ELSE "false",
                            setConnectedFlagResult(containers[commID], flag), "none")
            /\ containers' = [containers EXCEPT
                                 ![commID] = setConnectedFlag(containers[commID], flag)]
    /\ UNCHANGED <<pendingCommIDReq, creates, toMaster, toAdapter, adapterVars, peerVars, adminVars>>

\* setConnectedFlagContainer handing True to the container whatever the flag
setConnectedFlagContainer_IgnoreFlag(commID, flag) ==
    /\ last = Idle
    /\ IF commID \notin DOMAIN containers
       THEN /\ last' = Call("setConnectedFlagContainer", NoRobot, commID,
                            IF flag THEN "true" ELSE "false",
                            IF flag THEN "InvalidRequest" ELSE "ok", "none")
            /\ UNCHANGED containers
       ELSE /\ last' = Call("setConnectedFlagContainer", NoRobot, commID,
                            IF flag THEN "true" ELSE "false",
                            setConnectedFlagResult(containers[commID], TRUE), "none")
            /\ containers' = [containers EXCEPT
                                 ![commID] = setConnectedFlag(containers[commID], TRUE)]
    /\ UNCHANGED <<pendingCommIDReq, creates, toMaster, toAdapter, adapterVars, peerVars, adminVars>>

setConnectedFlagContainer(commID, flag) ==
    /\ last = Idle
    /\ IF commID \notin DOMAIN containers
       THEN /\ last' = Call("setConnectedFlagContainer", NoRobot, commID,
                            IF flag THEN "true" ELSE "false",
                            IF flag THEN "InvalidRequest" ELSE "ok", "none")
            /\ UNCHANGED containers
       ELSE /\ last' = Call("setConnectedFlagContainer", NoRobot, commID,
                            IF flag THEN "true" ELSE "false",
                            setConnectedFlagResult(containers[commID], flag), "none")
            /\ containers' = [containers EXCEPT
                                 ![commID] = setConnectedFlag(containers[commID], flag)]
    /\ UNCHANGED <<pendingCommIDReq, creates, toMaster, toAdapter, adapterVars, peerVars, adminVars>>

\* destroyContainer stopping the container before the owner is checked
destroyContainer_StopBeforeCheck(robotID, containerID) ==
    /\ last = Idle
    /\ IF containerID \notin DOMAIN containers
       THEN /\ last' = Call("destroyContainer", robotID, containerID, "none",
                            "InvalidRequest", "none")
            /\ UNCHANGED <<satVars, adapterVars, peerVars, adminVars>>
       ELSE /\ toAdapter' = Append(toAdapter, StopContainerMsg(containerID))
            /\ IF checkOwner(containers[containerID], robotID)
               THEN /\ containers' = DropKey(containers, containerID)
                    /\ last' = Call("destroyContainer", robotID, containerID, "none",
                                    "ok", "STOP_CONTAINER")
               ELSE /\ UNCHANGED containers
                    /\ last' = Call("destroyContainer", robotID, containerID, "none",
                                    "InvalidRequest", "STOP_CONTAINER")
            /\ UNCHANGED <<pendingCommIDReq, creates, toMaster, adapterVars, peerVars, adminVars>>

destroyContainer(robotID, containerID) ==
    /\ last = Idle
    /\ IF getContainer(robotID, containerID) # "ok"
       THEN /\ last' = Call("destroyContainer", robotID, containerID, "none",
                            getContainer(robotID, containerID), "none")
            /\ UNCHANGED <<satVars, adapterVars, peerVars, adminVars>>
       ELSE \* container.stop(commMngr) asks the adapter to stop; then the del
            /\ toAdapter' = Append(toAdapter, StopContainerMsg(containerID))
            /\ containers' = DropKey(containers, containerID)
            /\ last' = Call("destroyContainer", robotID, containerID, "none", "ok",
                            "STOP_CONTAINER")
            /\ UNCHANGED <<pendingCommIDReq, creates, toMaster, adapterVars, peerVars, adminVars>>

\* addNode: after _getContainer the node specification is looked up; the
\* value _getNodeDefParser returns is no Deferred, so addCallback raises and
\* container.addNode is never reached
addNode(robotID, containerID, nodeID) ==
    /\ last = Idle
    /\ IF getContainer(robotID, containerID) # "ok"
       THEN last' = Call("addNode", robotID, containerID, nodeID,
                         getContainer(robotID, containerID), "none")
       ELSE last' = Call("addNode", robotID, containerID, nodeID,
                         "Error", "getNodeSpecs")
    /\ UNCHANGED <<satVars, adapterVars, peerVars, adminVars>>

sendROSMsgToContainer(robotID, containerID) ==
    /\ last = Idle
    /\ IF getContainer(robotID, containerID) # "ok"
       THEN last' = Call("sendROSMsgToContainer", robotID, containerID, "none",
                         getContainer(robotID, containerID), "none")
       ELSE last' = Call("sendROSMsgToContainer", robotID, containerID, "none",
                         readyResult(containers[containerID]),
                         IF readyResult(containers[containerID]) = "ok"
                         THEN "ROS_MSG" ELSE "none")
    /\ UNCHANGED <<satVars, adapterVars, peerVars, adminVars>>

sendROSMsgToRobot(robotID, containerID) ==
    /\ last = Idle
    /\ IF getContainer(robotID, containerID) # "ok"
       THEN last' = Call("sendROSMsgToRobot", robotID, containerID, "none",
                         getContainer(robotID, containerID), "none")
       ELSE last' = Call("sendROSMsgToRobot", robotID, containerID, "none",
                         "ok", "ROS_MSG to robot")
    /\ UNCHANGED <<satVars, adapterVars, peerVars, adminVars>>

removeNode(robotID, containerID, nodeID) ==
    /\ last = Idle
    /\ IF getContainer(robotID, containerID) # "ok"
       THEN /\ last' = Call("removeNode", robotID, containerID, nodeID,
                            getContainer(robotID, containerID), "none")
            /\ UNCHANGED <<satVars, adapterVars, peerVars, adminVars>>
       ELSE IF readyResult(containers[containerID]) # "ok"
       THEN /\ last' = Call("removeNode", robotID, containerID, nodeID, "NotReady", "none")
            /\ UNCHANGED <<satVars, adapterVars, peerVars, adminVars>>
       ELSE /\ last' = Call("removeNode", robotID, containerID, nodeID, "ok", "ROS_REMOVE")
            /\ containers' = [containers EXCEPT ![containerID].nodes = @ \ {nodeID}]
            /\ UNCHANGED <<pendingCommIDReq, creates, toMaster, toAdapter, adapterVars, peerVars, adminVars>>

\* getSatelliteRouting announcing only the connected containers
getSatelliteRouting_ConnectedOnly == {c \in DOMAIN containers : containers[c].connected}

\* getSatelliteRouting: self._containers.keys()
getSatelliteRouting == DOMAIN containers

(***************************************************************************)
(* SatelliteManager: peer satellites                                       *)
(***************************************************************************)
\* the lists of satellites a CONNECT_DIRECTIVE may carry
SatelliteLists == {<<p>> : p \in Peers} \cup {<<p, q>> : p \in Peers, q \in Peers}

RECURSIVE SumOver(_, _)
SumOver(f, S) ==
    IF S = {} THEN 0
    ELSE LET x == CHOOSE y \in S : TRUE IN f[x] + SumOver(f, S \ {x})

\* the outbound connections opened so far
Connections == SumOver(connecting, Peers) + SumOver(links, Peers)

\* _connectToSatellite: reactor.connectTCP to the peer
connectToSatellite(conn, commID) == [conn EXCEPT ![commID] = @ + 1]

\* the loop of connectToSatellites
RECURSIVE connectAll(_, _)
connectAll(conn, satellites) ==
    IF satellites = <<>> THEN conn
    ELSE connectAll(connectToSatellite(conn, Head(satellites)), Tail(satellites))

\* connectToSatellites, run by ConnectDirectiveProcessor on CONNECT_DIRECTIVE
connectToSatellites(satellites) ==
    /\ last = Idle
    /\ Connections + Len(satellites) <= MaxConnects
    /\ connecting' = connectAll(connecting, satellites)
    /\ last' = [Call("connectToSatellites", NoRobot, <<>>, "none", "ok", "none")
                   EXCEPT !.results = satellites]
    /\ UNCHANGED <<satVars, adapterVars, links, peerView, adminVars>>

\* the handshake of an outbound connection is done: the SatelliteRoutingTrigger
\* given to the factory sends what getSatelliteRouting returns to the peer
SatelliteRoutingTrigger(peer) ==
    /\ last = Idle
    /\ connecting[peer] > 0
    /\ connecting' = [connecting EXCEPT ![peer] = @ - 1]
    /\ links' = [links EXCEPT ![peer] = @ + 1]
    /\ peerView' = [peerView EXCEPT ![peer] = getSatelliteRouting]
    /\ last' = [Call("SatelliteRoutingTrigger", NoRobot, <<>>, peer, "ok", "ROUTE_INFO")
                   EXCEPT !.addresses = getSatelliteRouting]
    /\ UNCHANGED <<satVars, adapterVars, adminVars>>

(***************************************************************************)
(* SatelliteManager.shutdown                                               *)
(***************************************************************************)
\* the orders in which itervalues() may yield the records
Orders(S) == {q \in [1..Cardinality(S) -> S] :
                 \A i, j \in 1..Cardinality(S) : i # j => q[i] # q[j]}

\* shutdown calls container.stop() without the CommManager that
\* destroyContainer hands to it. stopNeedsArg: Container.stop has no default
\* for the argument, so the first call raises TypeError and the loop and the
\* assignment after it are not run. Otherwise every record is asked to stop
\* and the map is replaced by an empty one, at once.
shutdown(stopNeedsArg) ==
    /\ last = Idle
    /\ IF containers = <<>>
       THEN /\ last' = Call("shutdown", NoRobot, <<>>, "none", "ok", "none")
            /\ UNCHANGED <<containers, toAdapter>>
       ELSE IF stopNeedsArg
       THEN /\ last' = [Call("shutdown", NoRobot, <<>>, "none", "TypeError", "none")
                           EXCEPT !.addresses = DOMAIN containers]
            /\ UNCHANGED <<containers, toAdapter>>
       ELSE \E order \in Orders(DOMAIN containers) :
            /\ toAdapter' = toAdapter \o [i \in 1..Len(order) |-> StopContainerMsg(order[i])]
            /\ containers' = <<>>
            /\ last' = [Call("shutdown", NoRobot, <<>>, "none", "ok", "STOP_CONTAINER")
                           EXCEPT !.addresses = DOMAIN containers]
    /\ UNCHANGED <<pendingCommIDReq, creates, toMaster, adapterVars, peerVars, adminVars>>

(***************************************************************************)
(* ContainerManager (ContainerUtil/Manager.py)                             *)
(***************************************************************************)
InList(x, list) == \E i \in 1..Len(list) : list[i] = x

\* list.remove(x): drops the first occurrence
ListRemove(list, x) ==
    LET i == CHOOSE k \in 1..Len(list) :
                 list[k] = x /\ \A j \in 1..(k - 1) : list[j] # x
    IN [j \in 1..(Len(list) - 1) |-> IF j < i THEN list[j] ELSE list[j + 1]]

\* _startContainer: the directory after the call, given that it did not exist.
\* _createFstabFile raises for a relative home folder, after config was written.
\* The spawn of lxc-start is commented out.
StartedDir(homeDir) ==
    IF isabs(homeDir) THEN {"config", "fstab", "upstart"} ELSE {"config"}

\* _createUpstartScript: the start-stop-daemon command of the upstart file
\* (user, program, arguments of the program). The command that passed an
\* address to Environment.py is commented out; the one in use runs Dummy.py
\* with str(8090), whatever the commID.
createUpstartScript(commID) ==
    [user |-> "ros:ros", exec |-> "Dummy.py", args |-> << <<"8", "0", "9", "0">> >>]

\* startContainer without the test of the registry
startContainer_NoRegistryCheck(commID, homeDir) ==
    /\ commIDs' = Append(commIDs, commID)
    /\ IF commID \in DOMAIN confDirs
       THEN /\ UNCHANGED confDirs
            /\ last' = Call("startContainer", NoRobot, commID, "none",
                            "directory exists", "none")
       ELSE /\ confDirs' = [d \in DOMAIN confDirs \cup {commID} |->
                              IF d = commID THEN StartedDir(homeDir)
                                            ELSE confDirs[d]]
            /\ last' = [Call("startContainer", NoRobot, commID, "none",
                             IF isabs(homeDir) THEN "ok" ELSE "ValueError",
                             "none")
                           EXCEPT !.upstart = IF isabs(homeDir)
                                              THEN createUpstartScript(commID)
                                              ELSE NoScript]
    /\ UNCHANGED <<threadJobs, lxcStops>>

\* startContainer, run by StartContainerProcessor on START_CONTAINER
startContainer(commID, homeDir) ==
    /\ IF InList(commID, commIDs)
       THEN /\ UNCHANGED <<commIDs, confDirs>>
            /\ last' = Call("startContainer", NoRobot, commID, "none",
                            "already registered", "none")
       ELSE /\ commIDs' = Append(commIDs, commID)
            /\ IF commID \in DOMAIN confDirs
               THEN /\ UNCHANGED confDirs
                    /\ last' = Call("startContainer", NoRobot, commID, "none",
                                    "directory exists", "none")
               ELSE /\ confDirs' = [d \in DOMAIN confDirs \cup {commID} |->
                                      IF d = commID THEN StartedDir(homeDir)
                                                    ELSE confDirs[d]]
                    /\ last' = [Call("startContainer", NoRobot, commID, "none",
                                     IF isabs(homeDir) THEN "ok" ELSE "ValueError",
                                     "none")
                                   EXCEPT !.upstart = IF isabs(homeDir)
                                                      THEN createUpstartScript(commID)
                                                      ELSE NoScript]
    /\ UNCHANGED <<threadJobs, lxcStops>>

\* stopContainer without the test of the registry
stopContainer_NoRegistryCheck(commID) ==
    /\ threadJobs' = [threadJobs EXCEPT ![commID] = @ + 1]
    /\ commIDs' = IF InList(commID, commIDs) THEN ListRemove(commIDs, commID) ELSE commIDs
    /\ last' = Call("stopContainer", NoRobot, commID, "none",
                    IF InList(commID, commIDs) THEN "ok" ELSE "not registered", "none")
    /\ UNCHANGED <<confDirs, lxcStops>>

\* stopContainer, run by StopContainerProcessor on STOP_CONTAINER
stopContainer(commID) ==
    /\ IF ~InList(commID, commIDs)
       THEN /\ UNCHANGED <<commIDs, threadJobs>>
            /\ last' = Call("stopContainer", NoRobot, commID, "none",
                            "not registered", "none")
       ELSE /\ threadJobs' = [threadJobs EXCEPT ![commID] = @ + 1]
            /\ commIDs' = ListRemove(commIDs, commID)
            /\ last' = Call("stopContainer", NoRobot, commID, "none", "ok", "none")
    /\ UNCHANGED <<confDirs, lxcStops>>

\* StartContainerProcessor and StopContainerProcessor hand every START_CONTAINER
\* and STOP_CONTAINER message to the manager, whoever has sent it
HomeDirs == HostDirs \cup {RelativeDir}

processStartContainer(commID, homeDir) ==
    /\ last = Idle
    /\ startContainer(commID, homeDir)
    /\ UNCHANGED <<satVars, peerVars, adminVars>>

processStopContainer(commID) ==
    /\ last = Idle
    /\ threadJobs[commID] + lxcStops[commID] < MaxStops
    /\ stopContainer(commID)
    /\ UNCHANGED <<satVars, peerVars, adminVars>>

\* the ContainerManager takes the next message from the satellite manager
adapterReceive ==
    /\ last = Idle
    /\ toAdapter # <<>>
    /\ toAdapter' = Tail(toAdapter)
    /\ IF Head(toAdapter).type = "START_CONTAINER"
       THEN startContainer(Head(toAdapter).commID, Head(toAdapter).homeDir)
       ELSE stopContainer(Head(toAdapter).commID)
    /\ UNCHANGED <<containers, pendingCommIDReq, creates, toMaster, peerVars, adminVars>>

\* _stopContainer, run by a thread of the pool: spawns lxc-stop
stopContainerThread(commID) ==
    /\ last = Idle
    /\ threadJobs[commID] > 0
    /\ threadJobs' = [threadJobs EXCEPT ![commID] = @ - 1]
    /\ lxcStops' = [lxcStops EXCEPT ![commID] = @ + 1]
    /\ last' = Call("_stopContainer", NoRobot, commID, "none", "ok", "lxc-stop")
    /\ UNCHANGED <<satVars, peerVars, adminVars, commIDs, confDirs>>

\* the callback of _stopContainer deleting the directory only after a clean exit
processEnded_KeepOnFailure(commID, exitCode) ==
    /\ last = Idle
    /\ lxcStops[commID] > 0
    /\ lxcStops' = [lxcStops EXCEPT ![commID] = @ - 1]
    /\ confDirs' = IF exitCode = "exit 0" THEN DropKey(confDirs, commID) ELSE confDirs
    /\ last' = Call("processEnded", NoRobot, commID, exitCode,
                    IF commID \in DOMAIN confDirs THEN "ok" ELSE "OSError", "none")
    /\ UNCHANGED <<satVars, peerVars, adminVars, commIDs, threadJobs>>

\* LXCProtocol.processEnded fires the Deferred of _stopContainer: the callback
\* deletes the directory whatever the exit code; rmtree raises if it is gone
processEnded(commID, exitCode) ==
    /\ last = Idle
    /\ lxcStops[commID] > 0
    /\ lxcStops' = [lxcStops EXCEPT ![commID] = @ - 1]
    /\ confDirs' = DropKey(confDirs, commID)
    /\ last' = Call("processEnded", NoRobot, commID, exitCode,
                    IF commID \in DOMAIN confDirs THEN "ok" ELSE "OSError", "none")
    /\ UNCHANGED <<satVars, peerVars, adminVars, commIDs, threadJobs>>

\* the occurrences of x in a list
Count(x, list) == Cardinality({i \in 1..Len(list) : list[i] = x})

\* event.set as the callback of a Deferred: a callback is called with the
\* result of the Deferred, and threading.Event.set() takes no argument, so the
\* call raises TypeError (kept by the Deferred) and the event stays clear
EventSetCallback(args) == IF Len(args) = 0 THEN "set" ELSE "clear"

\* the event of shutdown when it starts to wait: a DeferredList of no Deferred
\* fires when it is built and runs the callback when it is added; one with
\* Deferreds fires when the reactor has delivered the end of every lxc-stop
ShutdownEvent(deferreds) ==
    IF deferreds = <<>> THEN EventSetCallback(<<deferreds>>) ELSE "clear"

\* ContainerManager.shutdown: _stopContainer is called for every registered
\* address in the calling thread (lxc-stop is spawned at once), the Deferreds
\* are joined in a DeferredList with event.set as callback, and the call waits
\* for the event. The thread that waits is the thread of the reactor: no
\* handler runs while it waits.
ContainerManager_shutdown ==
    /\ last = Idle
    /\ \A a \in ContainerIDs :
          threadJobs[a] + lxcStops[a] + Count(a, commIDs) <= MaxStops
    /\ lxcStops' = [a \in ContainerIDs |-> lxcStops[a] + Count(a, commIDs)]
    /\ last' = [Call("ContainerManager.shutdown", NoRobot, <<>>, "none",
                     IF ShutdownEvent(commIDs) = "set" THEN "ok" ELSE "event.wait",
                     IF commIDs = <<>> THEN "none" ELSE "lxc-stop")
                   EXCEPT !.results = commIDs]
    /\ UNCHANGED <<satVars, peerVars, adminVars, commIDs, confDirs, threadJobs>>

\* the handler has returned: the reactor is back in its loop, where it runs
\* the next handler to completion; shutdown is run when the reactor stops
reactorLoop ==
    /\ last # Idle
    /\ last.op # "shutdown"
    /\ last.result # "event.wait"
    /\ last' = Idle
    /\ UNCHANGED <<satVars, adapterVars, peerVars, adminVars>>

Next ==
    \/ \E robotID \in RobotIDs : createContainer(robotID)
    \/ \E r \in 1..Len(creates) :
          \E res \in RobotSpecsResults(creates[r].robotID) :
             robotSpecsResponse(r, res)
    \/ \E commID \in ResponseIDs : setNewCommID(commID)
    \/ \E commID \in ContainerIDs : authenticateCall(commID)
    \/ \E commID \in ContainerIDs, flag \in BOOLEAN :
          setConnectedFlagContainer(commID, flag)
    \/ \E robotID \in RobotIDs, containerID \in ContainerIDs :
          destroyContainer(robotID, containerID)
    \/ \E robotID \in RobotIDs, containerID \in ContainerIDs, nodeID \in NodeIDs :
          addNode(robotID, containerID, nodeID)
    \/ \E robotID \in RobotIDs, containerID \in ContainerIDs :
          sendROSMsgToContainer(robotID, containerID)
    \/ \E robotID \in RobotIDs, containerID \in ContainerIDs :
          sendROSMsgToRobot(robotID, containerID)
    \/ \E robotID \in RobotIDs, containerID \in ContainerIDs, nodeID \in NodeIDs :
          removeNode(robotID, containerID, nodeID)
    \/ adapterReceive
    \/ \E commID \in ContainerIDs : stopContainerThread(commID)
    \/ \E commID \in ContainerIDs, exitCode \in {"exit 0", "exit 1"} :
          processEnded(commID, exitCode)
    \/ \E stopNeedsArg \in BOOLEAN : shutdown(stopNeedsArg)
    \/ reactorLoop

Spec == Init /\ [][Next]_vars

\* the satellite manager and its peers: the container map and the routing
\* information sent to the peers (the adapter takes no part in it)
RoutingNext ==
    \/ \E robotID \in RobotIDs : createContainer(robotID)
    \/ \E r \in 1..Len(creates) :
          \E res \in RobotSpecsResults(creates[r].robotID) :
             robotSpecsResponse(r, res)
    \/ \E commID \in ResponseIDs : setNewCommID(commID)
    \/ \E commID \in ContainerIDs, flag \in BOOLEAN :
          setConnectedFlagContainer(commID, flag)
    \/ \E robotID \in RobotIDs, containerID \in ContainerIDs :
          destroyContainer(robotID, containerID)
    \/ \E satellites \in SatelliteLists : connectToSatellites(satellites)
    \/ \E peer \in Peers : SatelliteRoutingTrigger(peer)
    \/ reactorLoop

RoutingSpec == Init /\ [][RoutingNext]_vars

\* the reactor runs the handlers of the events that are due: a connection that
\* was opened completes its handshake; the directives of the master and the
\* requests of the robots are not owed by anyone
RoutingFairSpec ==
    /\ RoutingSpec
    /\ WF_vars(reactorLoop)
    /\ \A peer \in Peers : SF_vars(SatelliteRoutingTrigger(peer))

\* the satellite manager and the master: the createContainer calls, the
\* answers of the database and the ID_RESPONSEs, solicited or not
AddressNext ==
    \/ \E robotID \in RobotIDs : createContainer(robotID)
    \/ \E r \in 1..Len(creates) :
          \E res \in RobotSpecsResults(creates[r].robotID) :
             robotSpecsResponse(r, res)
    \/ \E commID \in ResponseIDs : setNewCommID(commID)
    \/ reactorLoop

AddressSpec == Init /\ [][AddressNext]_vars

\* the ContainerManager under any sender of START_CONTAINER and STOP_CONTAINER
AdapterNext ==
    \/ \E commID \in ContainerIDs, homeDir \in HomeDirs :
          processStartContainer(commID, homeDir)
    \/ \E commID \in ContainerIDs : processStopContainer(commID)
    \/ \E commID \in ContainerIDs : stopContainerThread(commID)
    \/ \E commID \in ContainerIDs, exitCode \in {"exit 0", "exit 1"} :
          processEnded(commID, exitCode)
    \/ reactorLoop

AdapterSpec == Init /\ [][AdapterNext]_vars

\* the thread pool runs every job handed to it, every lxc-stop ends, and the
\* reactor delivers the end of a process to its protocol
AdapterFairSpec ==
    /\ AdapterSpec
    /\ WF_vars(reactorLoop)
    /\ \A commID \in ContainerIDs :
          /\ SF_vars(stopContainerThread(commID))
          /\ SF_vars(\E exitCode \in {"exit 0", "exit 1"} : processEnded(commID, exitCode))

\* the ContainerManager with its shutdown
ShutdownNext ==
    \/ \E commID \in ContainerIDs, homeDir \in HomeDirs :
          processStartContainer(commID, homeDir)
    \/ \E commID \in ContainerIDs : processStopContainer(commID)
    \/ \E commID \in ContainerIDs : stopContainerThread(commID)
    \/ \E commID \in ContainerIDs, exitCode \in {"exit 0", "exit 1"} :
          processEnded(commID, exitCode)
    \/ ContainerManager_shutdown
    \/ reactorLoop

ShutdownSpec == Init /\ [][ShutdownNext]_vars

\* the scheduling of AdapterFairSpec
ShutdownFairSpec ==
    /\ ShutdownSpec
    /\ WF_vars(reactorLoop)
    /\ \A commID \in ContainerIDs :
          /\ SF_vars(stopContainerThread(commID))
          /\ SF_vars(\E exitCode \in {"exit 0", "exit 1"} : processEnded(commID, exitCode))

(***************************************************************************)
(* Environment node (Administration/nodes/Environment.py)                  *)
(***************************************************************************)
\* the ids the manager hands out; request.taskID is empty when none is given
TaskIDs == 1..MaxTasks
NoTaskID == 0

\* the names EnvironmentManager.isValidNodeName accepts
ValidNodeNames == {"n1", "n2"}

\* the values json.loads returns, by their Python type
JNull == [kind |-> "null"]
JNumber == [kind |-> "number"]
JString(t) == [kind |-> "string", text |-> t]
JList(elems) == [kind |-> "list", elems |-> elems]
JDict(keys, vals) == [kind |-> "dict", keys |-> keys, vals |-> vals]

\* an expression that returned a value, or raised
Returned(v) == [exc |-> "none", value |-> v]
Raised(e) == [exc |-> e, value |-> JNull]

\* the request.data the services are called with
AddNodeTexts ==
    {"{\"add\": {\"n1\": {}}, \"remove\": [\"n2\"]}",
     "{\"add\": {\"n1\": {}, \"n2\": {}}}",
     "{\"remove\": [\"n2\"]}",
     "{}",
     "{\"add\": {}, \"remove\": []}",
     "{\"add\": ",
     "[\"n1\"]",
     "7",
     "\"add\"",
     "null",
     "{\"add\": [\"n1\"]}",
     "{\"add\": \"n1\", \"remove\": [\"n2\"]}",
     "{\"add\": null}",
     "{\"remove\": \"n2\"}",
     "{\"add\": {\"n1\": {}}, \"remove\": {\"n2\": {}}}",
     "{\"add\": {\"no name\": {}}, \"remove\": [\"n2\"]}",
     "{\"add\": {\"n1\": {}}, \"remove\": [\"no name\"]}"}

AddTaskTexts == {"", "{\"cmd\": 7}", "{\"cmd\": "}

\* json.loads: the value of a text, ValueError for a text that is not JSON
json_loads(text) ==
    LET empty == JDict(<<>>, <<>>)
        n1 == JString("n1")
        n2 == JString("n2")
    IN CASE text = "{\"add\": {\"n1\": {}}, \"remove\": [\"n2\"]}" ->
              Returned(JDict(<<"add", "remove">>,
                             <<JDict(<<"n1">>, <<empty>>), JList(<<n2>>)>>))
         [] text = "{\"add\": {\"n1\": {}, \"n2\": {}}}" ->
              Returned(JDict(<<"add">>, <<JDict(<<"n1", "n2">>, <<empty, empty>>)>>))
         [] text = "{\"remove\": [\"n2\"]}" ->
              Returned(JDict(<<"remove">>, <<JList(<<n2>>)>>))
         [] text = "{}" -> Returned(empty)
         [] text = "{\"add\": {}, \"remove\": []}" ->
              Returned(JDict(<<"add", "remove">>, <<empty, JList(<<>>)>>))
         [] text = "[\"n1\"]" -> Returned(JList(<<n1>>))
         [] text = "7" -> Returned(JNumber)
         [] text = "\"add\"" -> Returned(JString("add"))
         [] text = "null" -> Returned(JNull)
         [] text = "{\"add\": [\"n1\"]}" ->
              Returned(JDict(<<"add">>, <<JList(<<n1>>)>>))
         [] text = "{\"add\": \"n1\", \"remove\": [\"n2\"]}" ->
              Returned(JDict(<<"add", "remove">>, <<n1, JList(<<n2>>)>>))
         [] text = "{\"add\": null}" -> Returned(JDict(<<"add">>, <<JNull>>))
         [] text = "{\"remove\": \"n2\"}" -> Returned(JDict(<<"remove">>, <<n2>>))
         [] text = "{\"add\": {\"n1\": {}}, \"remove\": {\"n2\": {}}}" ->
              Returned(JDict(<<"add", "remove">>,
                             <<JDict(<<"n1">>, <<empty>>), JDict(<<"n2">>, <<empty>>)>>))
         [] text = "{\"add\": {\"no name\": {}}, \"remove\": [\"n2\"]}" ->
              Returned(JDict(<<"add", "remove">>,
                             <<JDict(<<"no name">>, <<empty>>), JList(<<n2>>)>>))
         [] text = "{\"add\": {\"n1\": {}}, \"remove\": [\"no name\"]}" ->
              Returned(JDict(<<"add", "remove">>,
                             <<JDict(<<"n1">>, <<empty>>), JList(<<JString("no name")>>)>>))
         [] text = "{\"cmd\": 7}" -> Returned(JDict(<<"cmd">>, <<JNumber>>))
         [] OTHER -> Raised("ValueError")

\* data[key]: TypeError unless data is a dict, KeyError for a key it has not
getitem(data, key) ==
    IF data.kind # "dict" THEN Raised("TypeError")
    ELSE IF \E i \in 1..Len(data.keys) : data.keys[i] = key
    THEN Returned(data.vals[CHOOSE i \in 1..Len(data.keys) : data.keys[i] = key])
    ELSE Raised("KeyError")

\* add.keys(): AttributeError unless add is a dict
dictKeys(add) ==
    IF add.kind = "dict" THEN Returned(add.keys) ELSE Raised("AttributeError")

\* EnvironmentManager.isValidNodeName
isValidNodeName(name) == name \in ValidNodeNames

\* a call of the callback to the manager
ManagerCall(fn, names) == [fn |-> fn, names |-> names]

\* what a callback has done: what it returned or raised, and its calls
Outcome(result, calls) == [result |-> result, calls |-> calls]

\* addNodeCallback calling addNode before the names to remove are tested
addNodeNames_AddBeforeRemoveTest(namesAdd, namesRemove, raises) ==
    IF \E i \in 1..Len(namesAdd) : ~isValidNodeName(namesAdd[i])
    THEN Outcome("InvalidRequest", <<>>)
    ELSE IF namesAdd # <<>> /\ raises
    THEN Outcome("manager.addNode raised", <<ManagerCall("addNode", namesAdd)>>)
    ELSE IF \E i \in 1..Len(namesRemove) : ~isValidNodeName(namesRemove[i])
    THEN Outcome("InvalidRequest",
                 IF namesAdd # <<>> THEN <<ManagerCall("addNode", namesAdd)>> ELSE <<>>)
    ELSE Outcome("ok",
                 (IF namesAdd # <<>> THEN <<ManagerCall("addNode", namesAdd)>> ELSE <<>>)
                 \o (IF namesRemove # <<>> THEN <<ManagerCall("removeNode", namesRemove)>>
                                           ELSE <<>>))

\* the part of addNodeCallback after data/add and data/remove are read:
\* every name is tested, then addNode and removeNode are called; raises says
\* that manager.addNode raises
addNodeNames(namesAdd, namesRemove, raises) ==
    IF \E i \in 1..Len(namesAdd) : ~isValidNodeName(namesAdd[i])
    THEN Outcome("InvalidRequest", <<>>)
    ELSE IF \E i \in 1..Len(namesRemove) : ~isValidNodeName(namesRemove[i])
    THEN Outcome("InvalidRequest", <<>>)
    ELSE IF namesAdd # <<>> /\ raises
    THEN Outcome("manager.addNode raised", <<ManagerCall("addNode", namesAdd)>>)
    ELSE Outcome("ok",
                 (IF namesAdd # <<>> THEN <<ManagerCall("addNode", namesAdd)>> ELSE <<>>)
                 \o (IF namesRemove # <<>> THEN <<ManagerCall("removeNode", namesRemove)>>
                                           ELSE <<>>))

\* addNodeCallback up to the loops over the names
addNodeOutcome(text, raises) ==
    LET loaded == json_loads(text)
        data == loaded.value
        addItem == getitem(data, "add")
        add == IF addItem.exc = "KeyError" THEN JDict(<<>>, <<>>) ELSE addItem.value
        namesAdd == dictKeys(add)
        removeItem == getitem(data, "remove")
        namesRemove == IF removeItem.exc = "KeyError" THEN <<>>
                       ELSE [i \in 1..Len(removeItem.value.elems) |->
                                removeItem.value.elems[i].text]
    IN IF loaded.exc = "ValueError" THEN Outcome("InvalidRequest", <<>>)
       ELSE IF addItem.exc \in {"TypeError", "AttributeError"}
       THEN Outcome("InvalidRequest", <<>>)
       ELSE IF namesAdd.exc = "AttributeError" THEN Outcome("InvalidRequest", <<>>)
       ELSE IF removeItem.exc = "none" /\ removeItem.value.kind # "list"
       THEN Outcome("InvalidRequest", <<>>)
       ELSE addNodeNames(namesAdd.value, namesRemove, raises)

\* the addNode service
addNodeCallback(text, raises) ==
    /\ service' = [op |-> "addNode", data |-> text, taskID |-> NoTaskID,
                   result |-> addNodeOutcome(text, raises).result,
                   calls |-> addNodeOutcome(text, raises).calls,
                   tasksBefore |-> tasks]
    /\ UNCHANGED <<tasks, baseVars, satVars, adapterVars, peerVars, last>>

\* EnvironmentManager.isValidTask
isValidTask(taskID) == taskID \in tasks

\* the addTask service. Without a taskID the manager is asked for a new task
\* (getNewTask registers it: the id the callback returns is the one a later
\* call has to pass isValidTask with); the data is decoded after that.
addTaskCallback(taskID, text) ==
    /\ taskID = NoTaskID => tasks # TaskIDs
    /\ IF taskID # NoTaskID /\ ~isValidTask(taskID)
       THEN /\ UNCHANGED tasks
            /\ service' = [op |-> "addTask", data |-> text, taskID |-> taskID,
                           result |-> "InvalidRequest", calls |-> <<>>,
                           tasksBefore |-> tasks]
       ELSE \E id \in (IF taskID # NoTaskID THEN {taskID} ELSE TaskIDs \ tasks) :
               LET getNewTask == IF taskID # NoTaskID THEN <<>>
                                 ELSE <<ManagerCall("getNewTask", <<id>>)>>
                   decoded == text = "" \/ json_loads(text).exc = "none"
               IN /\ tasks' = tasks \cup {id}
                  /\ service' = [op |-> "addTask", data |-> text, taskID |-> taskID,
                                 result |-> IF decoded THEN "ok" ELSE "InvalidRequest",
                                 calls |-> getNewTask \o
                                           (IF text # "" /\ decoded
                                            THEN <<ManagerCall("addTask", <<id>>)>>
                                            ELSE <<>>),
                                 tasksBefore |-> tasks]
    /\ UNCHANGED <<baseVars, satVars, adapterVars, peerVars, last>>

\* the removeTask service
removeTaskCallback(taskID) ==
    /\ IF ~isValidTask(taskID)
       THEN /\ UNCHANGED tasks
            /\ service' = [op |-> "removeTask", data |-> "", taskID |-> taskID,
                           result |-> "InvalidRequest", calls |-> <<>>,
                           tasksBefore |-> tasks]
       ELSE /\ tasks' = tasks \ {taskID}
            /\ service' = [op |-> "removeTask", data |-> "", taskID |-> taskID,
                           result |-> "ok",
                           calls |-> <<ManagerCall("removeTask", <<taskID>>)>>,
                           tasksBefore |-> tasks]
    /\ UNCHANGED <<baseVars, satVars, adapterVars, peerVars, last>>

\* the services of the Environment node, called by any client in any order
EnvironmentNext ==
    \/ \E text \in AddNodeTexts, raises \in BOOLEAN : addNodeCallback(text, raises)
    \/ \E taskID \in TaskIDs \cup {NoTaskID}, text \in AddTaskTexts :
          addTaskCallback(taskID, text)
    \/ \E taskID \in TaskIDs : removeTaskCallback(taskID)

EnvironmentSpec == Init /\ [][EnvironmentNext]_vars

(***************************************************************************)
(* ManagerBase (Administration/src/ManagerBase.py)                         *)
(***************************************************************************)
\* a call of a method decorated with ThreadUtility.job, not yet run;
\* launched: addProcess has its process and has still to enter it in the map
Job(fn, key) == [fn |-> fn, key |-> key, launched |-> FALSE]

JobsFor(fn, key) == {i \in 1..Len(jobQueue) : jobQueue[i].fn = fn /\ jobQueue[i].key = key}

\* a thread of the node calls addProcess(key, node), for a key without process
requestAddProcess(key) ==
    /\ Len(jobQueue) < MaxJobs
    /\ processes[key] # "running"
    /\ JobsFor("addProcess", key) = {}
    /\ jobQueue' = Append(jobQueue, Job("addProcess", key))
    /\ UNCHANGED <<runningProcesses, processes, processLock, stopThread>>
    /\ UNCHANGED <<envVars, satVars, adapterVars, peerVars, last>>

\* a thread of the node calls removeProcess(key)
requestRemoveProcess(key) ==
    /\ Len(jobQueue) < MaxJobs
    /\ jobQueue' = Append(jobQueue, Job("removeProcess", key))
    /\ UNCHANGED <<runningProcesses, processes, processLock, stopThread>>
    /\ UNCHANGED <<envVars, satVars, adapterVars, peerVars, last>>

\* addProcess, first half: self._launcher.launch(node); RLException (the
\* launcher has been stopped) becomes InternalError and the job ends
launch ==
    /\ jobQueue # <<>>
    /\ Head(jobQueue).fn = "addProcess"
    /\ ~Head(jobQueue).launched
    /\ IF stopThread.pc = "returned"
       THEN /\ jobQueue' = Tail(jobQueue)
            /\ UNCHANGED processes
       ELSE /\ jobQueue' = [jobQueue EXCEPT ![1].launched = TRUE]
            /\ processes' = [processes EXCEPT ![Head(jobQueue).key] = "running"]
    /\ UNCHANGED <<runningProcesses, processLock, stopThread>>
    /\ UNCHANGED <<envVars, satVars, adapterVars, peerVars, last>>

\* addProcess, second half: with self._processLock the process is entered
addProcess ==
    /\ jobQueue # <<>>
    /\ Head(jobQueue).fn = "addProcess"
    /\ Head(jobQueue).launched
    /\ processLock = "free"
    /\ runningProcesses' = runningProcesses \cup {Head(jobQueue).key}
    /\ jobQueue' = Tail(jobQueue)
    /\ UNCHANGED <<processes, processLock, stopThread>>
    /\ UNCHANGED <<envVars, satVars, adapterVars, peerVars, last>>

\* removeProcess: with self._processLock the process of the key is taken out
\* of the map and stopped; a key that is not in the map is reported
removeProcess ==
    /\ jobQueue # <<>>
    /\ Head(jobQueue).fn = "removeProcess"
    /\ processLock = "free"
    /\ IF Head(jobQueue).key \in runningProcesses
       THEN /\ runningProcesses' = runningProcesses \ {Head(jobQueue).key}
            /\ processes' = [processes EXCEPT ![Head(jobQueue).key] = "stopped"]
       ELSE UNCHANGED <<runningProcesses, processes>>
    /\ jobQueue' = Tail(jobQueue)
    /\ UNCHANGED <<processLock, stopThread>>
    /\ UNCHANGED <<envVars, satVars, adapterVars, peerVars, last>>

\* stop is called and takes self._processLock. ThreadUtility is not part of
\* the sources: a call of a job either returns when the job has run
\* (synchronous: run by the caller, or waited for) or as soon as it is queued
stop(synchronous) ==
    /\ stopThread.pc = "not called"
    /\ processLock = "free"
    /\ processLock' = "stop"
    /\ stopThread' = [pc |-> "loop", direct |-> synchronous, keysLeft |-> runningProcesses]
    /\ UNCHANGED <<runningProcesses, processes, jobQueue>>
    /\ UNCHANGED <<envVars, satVars, adapterVars, peerVars, last>>

\* the loop of stop: self.removeProcess(key) for a key of the map, the lock
\* held. A synchronous call needs the lock that stop holds: threading.Lock is
\* not reentrant, the thread waits for itself.
stopRemoveProcess(key) ==
    /\ stopThread.pc = "loop"
    /\ key \in stopThread.keysLeft
    /\ IF stopThread.direct
       THEN /\ stopThread' = [stopThread EXCEPT !.pc = "waits for _processLock"]
            /\ UNCHANGED jobQueue
       ELSE /\ stopThread' = [stopThread EXCEPT !.keysLeft = @ \ {key}]
            /\ jobQueue' = Append(jobQueue, Job("removeProcess", key))
    /\ UNCHANGED <<runningProcesses, processes, processLock>>
    /\ UNCHANGED <<envVars, satVars, adapterVars, peerVars, last>>

\* the end of stop: self._threadMngr.terminateAll(), self._launcher.stop()
\* (the launcher shuts down the processes it has launched), the lock is
\* released and stop returns
stopReturn ==
    /\ stopThread.pc = "loop"
    /\ stopThread.keysLeft = {}
    /\ processes' = [k \in Keys |-> IF processes[k] = "running" THEN "stopped"
                                                                 ELSE processes[k]]
    /\ processLock' = "free"
    /\ stopThread' = [stopThread EXCEPT !.pc = "returned"]
    /\ UNCHANGED <<runningProcesses, jobQueue>>
    /\ UNCHANGED <<envVars, satVars, adapterVars, peerVars, last>>

ManagerBaseNext ==
    \/ \E key \in Keys : requestAddProcess(key)
    \/ \E key \in Keys : requestRemoveProcess(key)
    \/ launch
    \/ addProcess
    \/ removeProcess
    \/ \E synchronous \in BOOLEAN : stop(synchronous)
    \/ \E key \in Keys : stopRemoveProcess(key)
    \/ stopReturn

ManagerBaseSpec == Init /\ [][ManagerBaseNext]_vars

(***************************************************************************)
(* Properties                                                              *)
(***************************************************************************)
\* the calls that complete a createContainer, and the robot-issued calls
CreateOps == {"setNewCommID", "robotSpecsResponse"}
OwnerOps == {"destroyContainer", "addNode", "removeNode",
             "sendROSMsgToContainer", "sendROSMsgToRobot"}

StartMsgs(queue) == {i \in 1..Len(queue) : queue[i].type = "START_CONTAINER"}

\* a stop of the container a has been requested and its cleanup is not done
StopInProgress(a) ==
    \/ \E i \in 1..Len(toAdapter) : toAdapter[i] = StopContainerMsg(a)
    \/ threadJobs[a] > 0
    \/ lxcStops[a] > 0

\* C1: FIFO resolution. Whenever an ID_RESPONSE is handled while address
\* requests are pending, the request it resolves is the oldest pending one, so
\* that the i-th request receives the address of the i-th response.
C1_FIFOResolution ==
    [][(last'.op = "setNewCommID" /\ pendingCommIDReq # <<>>)
          => last'.req = Head(pendingCommIDReq)]_vars

\* C2: address uniqueness. No two records of the container map have the same
\* address, and a createContainer whose address is already a key of the map
\* inserts nothing and leaves every record as it was.
C2_AddressUniqueness ==
    /\ [](\A c, d \in DOMAIN containers :
             /\ containers[c].address = c
             /\ c # d => containers[c].address # containers[d].address)
    /\ [][(/\ last'.op \in CreateOps
           /\ last'.results # <<>>
           /\ last'.results[2].ok
           /\ last'.results[2].value \in DOMAIN containers)
             => UNCHANGED <<containers, toAdapter>>]_vars

C2_Witness ==
    /\ last.proc = "duplicate"
    /\ last.commID \in DOMAIN containers
    /\ containers[last.commID].connected

\* C3: ownership. A robot-issued operation on a record whose owner is another
\* robot fails with InvalidRequest and does nothing: no lookup, no stop, no
\* node change, no message.
C3_Ownership ==
    [][(/\ last'.op \in OwnerOps
        /\ last'.commID \in DOMAIN containers
        /\ containers[last'.commID].ownerRobot # last'.robotID)
          => (/\ last'.result = "InvalidRequest"
              /\ last'.sent = "none"
              /\ UNCHANGED <<satVars, adapterVars>>)]_vars

C3_Witness ==
    /\ last.op = "removeNode"
    /\ last.result = "InvalidRequest"
    /\ last.commID \in DOMAIN containers
    /\ containers[last.commID].state = "Ready"
    /\ containers[last.commID].ownerRobot # last.robotID
    /\ containers[last.commID].ownerRobot \in RobotIDs

\* C4: a rejected destroyContainer changes nothing. destroyContainer fails
\* with InvalidRequest exactly when the container is unknown or owned by
\* another robot, and then the map, the records, the routing view, the
\* messages to the adapter and the directories are as before.
C4_RejectedDestroyChangesNothing ==
    [][last'.op = "destroyContainer"
          => LET rejected == \/ last'.commID \notin DOMAIN containers
                             \/ containers[last'.commID].ownerRobot # last'.robotID
             IN /\ (last'.result = "InvalidRequest") <=> rejected
                /\ rejected => /\ UNCHANGED <<satVars, adapterVars>>
                               /\ getSatelliteRouting' = getSatelliteRouting
                               /\ last'.sent = "none"]_vars

C4_Witness ==
    /\ last.op = "destroyContainer"
    /\ last.result = "InvalidRequest"
    /\ last.commID \in DOMAIN containers
    /\ containers[last.commID].state = "Ready"
    /\ containers[last.commID].connected
    /\ last.commID \in DOMAIN confDirs

\* C5: cleanup after destroy. When a successful destroyContainer has
\* returned, the directory the start has written for the address does not
\* exist and the address is neither a key of the map nor part of the routing
\* view.
C5_CleanupAfterDestroy ==
    (last.op = "destroyContainer" /\ last.result = "ok")
        => /\ ~(last.commID \in DOMAIN confDirs /\ confDirs[last.commID] # {})
           /\ last.commID \notin DOMAIN containers
           /\ last.commID \notin getSatelliteRouting

\* C6: the record is removed only after Stopped. While the stop of a
\* container is in progress its record is in the map, in state Stopping.
C6_RemovedOnlyAfterStopped ==
    \A a \in ContainerIDs :
        StopInProgress(a)
            => (a \in DOMAIN containers /\ containers[a].state = "Stopping")

\* C7: createContainer inserts a record and requests a start exactly when
\* both lookups succeeded, the address is valid and not a key of the map and
\* the home folder is a directory; otherwise the map is unchanged and no start
\* is requested. No other call inserts a record or requests a start.
C7_CreateOnlyWhenValid ==
    [][IF last'.op \in CreateOps
       THEN LET res == last'.results
                good == /\ res # <<>>
                        /\ res[1].ok /\ res[2].ok
                        /\ validateAddress(res[2].value)
                        /\ res[2].value \notin DOMAIN containers
                        /\ isdir(res[1].value)
            IN IF good
               THEN /\ DOMAIN containers' = DOMAIN containers \cup {res[2].value}
                    /\ \A c \in DOMAIN containers : containers'[c] = containers[c]
                    /\ containers'[res[2].value].address = res[2].value
                    /\ containers'[res[2].value].homeDir = res[1].value
                    /\ ~containers'[res[2].value].connected
                    /\ toAdapter' = Append(toAdapter,
                                           StartContainerMsg(res[2].value, res[1].value))
               ELSE UNCHANGED <<containers, toAdapter>>
       ELSE /\ DOMAIN containers' \subseteq DOMAIN containers
            /\ Cardinality(StartMsgs(toAdapter')) <= Cardinality(StartMsgs(toAdapter))]_vars

C7_Witness ==
    /\ last.op \in CreateOps
    /\ last.proc = "started"
    /\ last.commID \in DOMAIN containers
    /\ Cardinality(DOMAIN containers) = 2

\* C8 as stated: authenticateContainerConnection returns true if and only if
\* the map holds a record of the address in state WaitingHandshake.
C8_AuthenticateOnlyWaitingHandshake ==
    last.op = "authenticateContainerConnection"
        => (last.result = "true"
              <=> (/\ last.commID \in DOMAIN containers
                   /\ containers[last.commID].state = "WaitingHandshake"))

\* C8 as amended: authenticateContainerConnection returns true if and only
\* if the map holds a record of the address, whatever the state of the record.
C8_AuthenticateIffRecord ==
    last.op = "authenticateContainerConnection"
        => (last.result = "true" <=> last.commID \in DOMAIN containers)

C8_Witness ==
    /\ last.op = "authenticateContainerConnection"
    /\ last.result = "true"
    /\ containers[last.commID].state = "Ready"

C10_ReadyOnlyOnceByHandshake ==
    [][/\ \A c \in DOMAIN containers' :
             (containers'[c].connected /\ ~(c \in DOMAIN containers /\ containers[c].connected))
                => /\ last'.op = "setConnectedFlagContainer"
                   /\ last'.arg = "true"
                   /\ last'.result = "ok"
                   /\ last'.commID = c
                   /\ c \in DOMAIN containers
                   /\ containers[c].state = "WaitingHandshake"
                   /\ containers'[c].state = "Ready"
       /\ (/\ last'.op = "setConnectedFlagContainer"
           /\ last'.arg = "true"
           /\ last'.commID \in DOMAIN containers
           /\ containers[last'.commID].connected)
             => (last'.result = "InvalidRequest" /\ UNCHANGED <<satVars, adapterVars>>)
       /\ \A c \in DOMAIN containers \cap DOMAIN containers' :
             (containers'[c].state = "WaitingHandshake")
                => (containers[c].state = "WaitingHandshake")
       /\ \A c \in DOMAIN containers : containers[c].connected <=> containers[c].state = "Ready"]_vars

C10_Witness ==
    /\ last.op = "setConnectedFlagContainer"
    /\ last.arg = "true"
    /\ last.result = "InvalidRequest"
    /\ last.commID \in DOMAIN containers
    /\ containers[last.commID].connected

\* the robot-issued calls that need a record in Ready, and the messages they
\* forward to the container
LifecycleOps == {"addNode", "removeNode", "sendROSMsgToContainer"}
ContainerMsgs == {"ROS_ADD", "ROS_REMOVE", "ROS_MSG"}

\* C11: lifecycle ordering. addNode, removeNode and sendROSMsgToContainer
\* issued by the owner against a record that is not in Ready are rejected with
\* NotReady, forward nothing to the container and change nothing.
C11_LifecycleOrdering ==
    [][(/\ last'.op \in LifecycleOps
        /\ last'.commID \in DOMAIN containers
        /\ containers[last'.commID].ownerRobot = last'.robotID
        /\ containers[last'.commID].state # "Ready")
          => (/\ last'.result = "NotReady"
              /\ last'.sent \notin ContainerMsgs
              /\ UNCHANGED <<satVars, adapterVars>>)]_vars

\* the addresses of the records the map holds
RecordAddresses == {containers[c].address : c \in DOMAIN containers}

\* C12: routing correctness. At every instant getSatelliteRouting is exactly
\* the set of addresses of the records in the map, connected or not, and the
\* ROUTE_INFO the routing trigger sends to a peer carries exactly that set.
C12_RoutingCorrectness ==
    /\ getSatelliteRouting = RecordAddresses
    /\ last.op = "SatelliteRoutingTrigger"
          => (last.addresses = RecordAddresses /\ peerView[last.arg] = RecordAddresses)

C12_Witness ==
    /\ last.op = "SatelliteRoutingTrigger"
    /\ \E c, d \in last.addresses :
          /\ containers[c].connected
          /\ ~containers[d].connected

\* C13: routing re-announcement. A peer with an established connection does
\* not keep a stale routing view forever: after the set of local container
\* addresses has changed, a ROUTE_INFO with the new set is eventually sent to
\* it, so that its view is eventually the set of addresses of the map.
C13_RoutingReannounced ==
    \A p \in Peers : [](links[p] > 0 => <>(peerView[p] = RecordAddresses))

\* C14: start launches the container. A start for an address without a
\* directory and with an absolute home folder creates the directory with
\* config, fstab and upstart, and every such start is eventually followed by
\* the invocation of lxc-start for the address.
C14_StartLaunchesContainer ==
    /\ [](\A a \in ContainerIDs :
            (last.op = "startContainer" /\ last.commID = a /\ last.result = "ok")
               => (a \in DOMAIN confDirs /\ confDirs[a] = {"config", "fstab", "upstart"}))
    /\ \A a \in ContainerIDs :
          [](last.op = "startContainer" /\ last.commID = a /\ last.result = "ok"
               => <>(last.commID = a /\ last.sent = "lxc-start"))

\* C15: duplicate directory on start. When the start of a container finds the
\* directory of the address in place, the directories stay as they are and
\* the container map has no record of the address.
C15_DuplicateDirectoryAborts ==
    [][(last'.op = "startContainer" /\ last'.result = "directory exists")
          => (/\ confDirs' = confDirs
              /\ last'.commID \notin DOMAIN containers')]_vars

PreExisting(a) == a \in DOMAIN confDirs /\ confDirs[a] = {}

C19_StopUnregisteredIsNoOp ==
    [][(last'.op = "stopContainer" /\ ~InList(last'.commID, commIDs))
          => (/\ last'.result = "not registered"
              /\ last'.sent = "none"
              /\ UNCHANGED adapterVars)]_vars

C19_Witness ==
    /\ last.op = "stopContainer"
    /\ last.result = "not registered"
    /\ last.commID \in DOMAIN confDirs
    /\ confDirs[last.commID] # {}
    /\ commIDs # <<>>

\* C20: shutdown stops everything. When shutdown has returned the container
\* map is empty, and for every record it found in the map the stop is
\* complete and the directory of the address is gone.
C20_ShutdownStopsEverything ==
    last.op = "shutdown"
        => /\ DOMAIN containers = {}
           /\ \A a \in last.addresses :
                 /\ ~StopInProgress(a)
                 /\ a \notin DOMAIN confDirs

\* C21: pending address requests do not hang. When the satellite has shut
\* down, no address request is left pending: the queue of pending requests is
\* empty and every createContainer that waited for an address has been failed.
C21_PendingRequestsFailedOnShutdown ==
    last.op = "shutdown"
        => /\ pendingCommIDReq = <<>>
           /\ \A r \in 1..Len(creates) : creates[r] = Done \/ creates[r].comm.fired

\* the calls that end the life of an address handed out by the master: a
\* destroyContainer that removed the record, and a createContainer aborted by
\* processRobotSpecs after the address was received
AbortedWithAddress == {"invalidAddress", "duplicate", "noHomeFolder"}

\* C22: address release. Every address obtained from the master is
\* eventually released with an ID_DELETE for that address, once its container
\* has been destroyed or its creation was aborted after the address was
\* received.
C22_AddressReleased ==
    \A a \in ResponseIDs :
        []((/\ last.commID = a
            /\ \/ last.op = "destroyContainer" /\ last.result = "ok"
               \/ last.op \in CreateOps /\ last.proc \in AbortedWithAddress)
              => <>(last.sent = "ID_DELETE" /\ last.commID = a))

\* C23: peer mesh without duplicate links. After any sequence of
\* CONNECT_DIRECTIVEs, with a peer listed twice in one directive or in two
\* directives, the manager holds at most one outbound connection per peer,
\* being opened or established.
C23_OneConnectionPerPeer ==
    \A p \in Peers : connecting[p] + links[p] <= 1

\* the requests in the list of pending address requests, and a request whose
\* Deferred for the address has not fired
PendingRequests == {pendingCommIDReq[i] : i \in 1..Len(pendingCommIDReq)}
AddressPending(r) == creates[r] # Done /\ ~creates[r].comm.fired

\* C24: each pending request is resolved exactly once. The list holds each
\* request whose address is outstanding, once; an ID_RESPONSE handled while
\* requests are pending fires the Deferred of exactly one of them, which was
\* still pending, and takes it out of the list; a request that was resolved is
\* never pending again. So n requests followed by n responses leave the list
\* empty and the n requests resolved.
C24_ResolvedExactlyOnce ==
    /\ [](/\ \A i, j \in 1..Len(pendingCommIDReq) :
                i # j => pendingCommIDReq[i] # pendingCommIDReq[j]
          /\ PendingRequests = {r \in 1..Len(creates) : AddressPending(r)})
    /\ [][(last'.op = "setNewCommID" /\ pendingCommIDReq # <<>>)
             => (/\ last'.req \in PendingRequests
                 /\ PendingRequests' = PendingRequests \ {last'.req}
                 /\ Len(pendingCommIDReq') = Len(pendingCommIDReq) - 1
                 /\ (creates'[last'.req] = Done \/ creates'[last'.req].comm.fired)
                 /\ \A r \in PendingRequests \ {last'.req} : creates'[r] = creates[r])]_vars
    /\ [][\A r \in 1..Len(creates) : ~AddressPending(r) => ~AddressPending(r)']_vars

C24_Witness ==
    /\ last.op = "setNewCommID"
    /\ last.req = 1
    /\ Len(creates) = MaxCreates
    /\ pendingCommIDReq = <<>>
    /\ \A r \in 1..Len(creates) : ~AddressPending(r)

\* C25: the upstart file is derived from the container address. The
\* upstart file a start writes runs the program as user ros and passes the
\* address of the container as the first argument of the program, so the files
\* of two containers with different addresses differ in that argument.
C25_UpstartPassesOwnAddress ==
    (last.op = "startContainer" /\ last.result = "ok")
        => /\ "upstart" \in confDirs[last.commID]
           /\ last.upstart.user = "ros:ros"
           /\ Len(last.upstart.args) > 0
           /\ last.upstart.args[1] = last.commID

\* C26: per-request isolation. Under any interleaving of createContainer
\* calls, the record a call inserts has the robot of that call as its owner
\* and, as its home folder, the folder the database returned for that robot;
\* checkOwner on the record succeeds for that robot and for no other.
C26_PerRequestIsolation ==
    [][(last'.op \in CreateOps /\ last'.proc = "started")
          => LET c == containers'[last'.commID]
             IN /\ c.homeDir = last'.results[1].value
                /\ last'.results[1] \in RobotSpecsResults(last'.robotID)
                /\ c.ownerRobot = last'.robotID
                /\ \A robotID \in RobotIDs :
                      checkOwner(c, robotID) <=> robotID = last'.robotID]_vars

\* C27: adapter shutdown terminates. ContainerManager.shutdown does not
\* wait for ever on its event: a shutdown that waits is followed by the end of
\* the wait, with any number of registered containers, none included.
C27_ShutdownTerminates ==
    (last.op = "ContainerManager.shutdown") ~> (last.result # "event.wait")

\* C28: a failed start leaves no trace. When a start has failed, because the
\* directory was in place or the home folder is not absolute, the address is
\* not registered, and no partly written directory of the address is left
\* behind: an address is registered only if its container was started.
C28_FailedStartLeavesNoTrace ==
    [][(last'.op = "startContainer"
           /\ last'.result \in {"directory exists", "ValueError"})
          => (/\ ~InList(last'.commID, commIDs')
              /\ confDirs' = confDirs)]_vars

\* C29: the registry of the adapter is a set. A start for an address that is
\* registered changes nothing; no address is ever twice in the registry; and
\* one accepted stop takes the address out of the registry altogether.
C29_RegistryIsASet ==
    /\ [](\A i, j \in 1..Len(commIDs) : i # j => commIDs[i] # commIDs[j])
    /\ [][(last'.op = "startContainer" /\ InList(last'.commID, commIDs))
             => (/\ last'.result = "already registered"
                 /\ UNCHANGED adapterVars)]_vars
    /\ [][(last'.op = "stopContainer" /\ last'.result = "ok")
             => (/\ InList(last'.commID, commIDs)
                 /\ ~InList(last'.commID, commIDs'))]_vars

C29_Witness ==
    /\ last.op = "startContainer"
    /\ last.result = "already registered"
    /\ Len(commIDs) = Cardinality(ContainerIDs)
    /\ \E a \in ContainerIDs : lxcStops[a] > 0

\* C30: an unsolicited ID_RESPONSE is harmless. setNewCommID called while no
\* address request is pending resolves no request, leaves the list of pending
\* requests empty and the container map, like everything else the manager
\* holds, as it was; a response that arrives with a request pending, whatever
\* came before, resolves a pending request with the address it carries.
C30_UnsolicitedResponseHarmless ==
    /\ [][(last'.op = "setNewCommID" /\ pendingCommIDReq = <<>>)
             => (/\ pendingCommIDReq' = <<>>
                 /\ last'.proc = "none"
                 /\ last'.sent = "none"
                 /\ UNCHANGED <<satVars, adapterVars, peerVars>>)]_vars
    /\ [][(last'.op = "setNewCommID" /\ pendingCommIDReq # <<>>)
             => (/\ last'.req \in PendingRequests
                 /\ \/ creates'[last'.req].comm = Success(last'.commID)
                    \/ /\ creates'[last'.req] = Done
                       /\ last'.results[2] = Success(last'.commID))]_vars

C30_Witness ==
    /\ last.op = "setNewCommID"
    /\ last.result = "IndexError"
    /\ pendingCommIDReq = <<>>
    /\ containers # <<>>
    /\ Len(creates) < MaxCreates

\* the value of a key of a decoded request, when the request is a dict with it
HasKey(data, key) == data.kind = "dict" /\ \E i \in 1..Len(data.keys) : data.keys[i] = key
ValueOf(data, key) == data.vals[CHOOSE i \in 1..Len(data.keys) : data.keys[i] = key]

\* a request the addNode service has to reject: not JSON, not a dict, add that
\* is not a dict, remove that is not a list, or a name that is not valid
BadAddNodeRequest(text) ==
    LET data == json_loads(text).value
    IN \/ json_loads(text).exc # "none"
       \/ data.kind # "dict"
       \/ /\ HasKey(data, "add")
          /\ \/ ValueOf(data, "add").kind # "dict"
             \/ \E i \in 1..Len(ValueOf(data, "add").keys) :
                   ValueOf(data, "add").keys[i] \notin ValidNodeNames
       \/ /\ HasKey(data, "remove")
          /\ \/ ValueOf(data, "remove").kind # "list"
             \/ \E i \in 1..Len(ValueOf(data, "remove").elems) :
                   ValueOf(data, "remove").elems[i].text \notin ValidNodeNames

\* C31: the addNode service validates before it mutates. For a request that
\* is not valid JSON, not a dict, has an add that is not a dict or a remove
\* that is not a list, or names a node that is not valid, addNodeCallback
\* raises InvalidRequest and has called neither manager.addNode nor
\* manager.removeNode; when it calls them, addNode comes before removeNode,
\* each at most once and only with a list of names that is not empty.
C31_AddNodeValidatesFirst ==
    service.op = "addNode"
        => /\ BadAddNodeRequest(service.data)
                => (service.result = "InvalidRequest" /\ service.calls = <<>>)
           /\ Len(service.calls) <= 2
           /\ \A i \in 1..Len(service.calls) :
                 /\ service.calls[i].fn \in {"addNode", "removeNode"}
                 /\ service.calls[i].names # <<>>
           /\ \A i, j \in 1..Len(service.calls) :
                 (service.calls[i].fn = "addNode" /\ service.calls[j].fn = "removeNode")
                    => i < j
           /\ Len(service.calls) = 2 => service.calls[1].fn # service.calls[2].fn

C31_Witness ==
    /\ service.op = "addNode"
    /\ service.data = "{\"add\": {\"n1\": {}}, \"remove\": [\"no name\"]}"
    /\ service.result = "InvalidRequest"
    /\ service.calls = <<>>

\* C32: the addTask service leaves no orphan task on error. Whenever
\* addTaskCallback raises InvalidRequest, for a task id that is not valid or
\* for data that is not JSON, the tasks of the manager are the ones it had
\* before the call, also when no task id was given and the callback obtained
\* a new one from manager.getNewTask.
C32_AddTaskNoOrphan ==
    (service.op = "addTask" /\ service.result = "InvalidRequest")
        => tasks = service.tasksBefore

\* C33: ManagerBase.stop terminates and stops everything. Called with any
\* number of processes registered, and with addProcess and removeProcess
\* jobs going on, stop never waits for the lock it holds itself; when it has
\* returned every process is stopped and the map of running processes is
\* empty; and the map changes only in a thread that holds the lock.
C33_StopTerminatesAndStopsAll ==
    /\ [](~(stopThread.pc = "waits for _processLock" /\ processLock = "stop"))
    /\ [](stopThread.pc = "returned"
            => (/\ runningProcesses = {}
                /\ \A k \in Keys : processes[k] # "running"))
    /\ [][processLock = "stop" => runningProcesses' = runningProcesses]_vars
====
